---- MODULE Spec2Model ----
(***************************************************************************)
(* Abandoned-cart / browse-abandonment service (Express + PostgreSQL).     *)
(* The store is the three tables of initDatabase; the operations are the   *)
(* webhook and tracking handlers and the two periodic scans.  A handler    *)
(* or scan is split at its awaits: every database statement and every      *)
(* external call is one atomic step, and steps of different handlers and   *)
(* scans interleave, as they do on the Node.js event loop.                 *)
(* Time is counted in hours.                                               *)
(***************************************************************************)
EXTENDS Integers, Sequences, FiniteSets, TLC

VARIABLES
    now,            \* NOW() / CURRENT_TIMESTAMP, in hours
    testMode,       \* TEST_MODE (a deployment constant, fixed in Init)
    abandoned_carts,\* table abandoned_carts, in insertion order
    browse_events,  \* table browse_events, in insertion order
    email_log,      \* table email_log, in insertion order
    hooks,          \* cart webhook handlers between their fetch and their upsert
    received,       \* how many cart webhooks and product views have been accepted
    cartScan,       \* the runs of processAbandonedCarts (cron and manual trigger)
    browseScan,     \* the run of processBrowseAbandonment
    delivered,      \* history: every successful delivery call, in order
    overlapped,     \* history: a cart scan started while another one was running
    writeFailed,    \* history: a storage write inside a scan has failed
    ordered,        \* history: the carts an order-created webhook was handled for
    last            \* history: the step taken last, with its inputs

vars == <<now, testMode, abandoned_carts, browse_events, email_log, hooks, received,
          cartScan, browseScan, delivered, overlapped, writeFailed, ordered, last>>

----------------------------------------------------------------------------
(* Values *)

\* SQL NULL, JavaScript null / undefined
NULL == "NULL"

TEST_EMAIL == "rjeremyhindman@gmail.com"

\* the allow-listed address in another letter case, and an unrelated address
TEST_EMAIL_CASED == "RJeremyHindman@Gmail.com"
OTHER_EMAIL == "y@x.com"

\* String.prototype.toLowerCase on the addresses of the model
toLowerCase(s) == IF s = TEST_EMAIL_CASED THEN TEST_EMAIL ELSE s

\* customer ids are INTEGER in the schema; 0 is BigCommerce's "guest"
GUEST_ID == "0"
CUSTOMER_ID == "7"

\* JavaScript truthiness of a value of the model (`!x` is ~Truthy(x))
Truthy(x) == x \notin {NULL, "", GUEST_ID}

\* (variant: SET column = EXCLUDED.column, without COALESCE)
COALESCE_NoCoalesce(a, b) == a

\* PostgreSQL COALESCE(a, b)
COALESCE(a, b) == IF a # NULL THEN a ELSE b

\* INTERVAL '1 hour' of the cart scan, INTERVAL '2 hours' and '24 hours' of
\* the browse scan, LIMIT 10 of both, slice(0, 3) of the product list
CART_DWELL == 1
BROWSE_DWELL == 2
CART_RECENCY == 24
SCAN_LIMIT == 10
PRODUCT_LIMIT == 3

----------------------------------------------------------------------------
(* Bounds of the model *)

MaxRequests == 2
MaxUpserts == 2
MaxCartRequests == 2
MaxBrowseRequests == 2
MaxSelectRequests == 2
MaxViews == 4
MaxDeliveries == 2
MaxBatchExtra == 1
MaxVisitorRequests == 3
MaxAuditRequests == 2
MaxCaseRequests == 3
MaxShift == 1

CartIds == {"c1", "c2"}
Handlers == {1, 2}
ScanIds == {"cron", "manual"}

Range(s) == {s[i] : i \in 1..Len(s)}

Take(s, n) == SubSeq(s, 1, IF Len(s) < n THEN Len(s) ELSE n)

\* the sequences that list every element of the finite set S exactly once
Orderings(S) ==
    {q \in [1..Cardinality(S) -> S] : \A i, j \in 1..Cardinality(S) : q[i] = q[j] => i = j}

----------------------------------------------------------------------------
(* Table abandoned_carts *)

\* a row as INSERT creates it: the schema defaults for the four flags
NewCartRow(id, cartId, email, customerId, data, total, t) ==
    [id |-> id, cart_id |-> cartId, customer_email |-> email,
     customer_id |-> customerId, cart_data |-> data, cart_total |-> total,
     updated_at |-> t, converted |-> FALSE,
     email_sent_1 |-> FALSE, email_sent_2 |-> FALSE, email_sent_3 |-> FALSE]

\* (variant: a DO UPDATE SET that also writes the defaults of the flags)
MergeCartRow_ResetsFlags(row, email, customerId, data, total, t) ==
    NewCartRow(row.id, row.cart_id, COALESCE(email, row.customer_email),
               COALESCE(customerId, row.customer_id), data, total, t)

\* (variant: a DO UPDATE SET that also writes converted = FALSE)
MergeCartRow_Reopens(row, email, customerId, data, total, t) ==
    [row EXCEPT !.customer_email = COALESCE(email, row.customer_email),
                !.customer_id = COALESCE(customerId, row.customer_id),
                !.cart_data = data,
                !.cart_total = total,
                !.updated_at = t,
                !.converted = FALSE]

MergeCartRow(row, email, customerId, data, total, t) ==
    [row EXCEPT !.customer_email = COALESCE(email, row.customer_email),
                !.customer_id = COALESCE(customerId, row.customer_id),
                !.cart_data = data,
                !.cart_total = total,
                !.updated_at = t]

\* (variant: an INSERT without the ON CONFLICT clause and without the
\* UNIQUE constraint it relies on)
UpsertCart_AlwaysInsert(cs, cartId, email, customerId, data, total, t) ==
    Append(cs, NewCartRow(Len(cs) + 1, cartId, email, customerId, data, total, t))

\* INSERT INTO abandoned_carts ... ON CONFLICT (cart_id) DO UPDATE SET ...
UpsertCart(cs, cartId, email, customerId, data, total, t) ==
    IF \E i \in 1..Len(cs) : cs[i].cart_id = cartId
    THEN [i \in 1..Len(cs) |->
            IF cs[i].cart_id = cartId
            THEN MergeCartRow(cs[i], email, customerId, data, total, t)
            ELSE cs[i]]
    ELSE Append(cs, NewCartRow(Len(cs) + 1, cartId, email, customerId, data, total, t))

\* (variant: an upsert of the converted row instead of the UPDATE)
MarkConverted_InsertsMissing(cs, cartId, t) ==
    IF \E i \in 1..Len(cs) : cs[i].cart_id = cartId
    THEN [i \in 1..Len(cs) |->
            IF cs[i].cart_id = cartId
            THEN [cs[i] EXCEPT !.converted = TRUE, !.updated_at = t]
            ELSE cs[i]]
    ELSE Append(cs, [NewCartRow(Len(cs) + 1, cartId, NULL, NULL, NULL, 0, t)
                        EXCEPT !.converted = TRUE])

\* WHERE cart_id = $1
MarkConverted(cs, cartId, t) ==
    [i \in 1..Len(cs) |->
        IF cs[i].cart_id = cartId
        THEN [cs[i] EXCEPT !.converted = TRUE, !.updated_at = t]
        ELSE cs[i]]

\* (variant: the UPDATE matches no row)
MarkEmailSent1_NoRow(cs, id) == cs

\* (variant: the UPDATE without its WHERE clause)
MarkEmailSent1_EveryRow(cs, id) ==
    [i \in 1..Len(cs) |-> [cs[i] EXCEPT !.email_sent_1 = TRUE]]

\* (variant: an UPDATE that sets the flags of all three stages)
MarkEmailSent1_AllStages(cs, id) ==
    [i \in 1..Len(cs) |->
        IF cs[i].id = id
        THEN [cs[i] EXCEPT !.email_sent_1 = TRUE, !.email_sent_2 = TRUE,
                           !.email_sent_3 = TRUE]
        ELSE cs[i]]

\* (variant: an UPDATE that also closes the cart)
MarkEmailSent1_Converts(cs, id) ==
    [i \in 1..Len(cs) |->
        IF cs[i].id = id THEN [cs[i] EXCEPT !.email_sent_1 = TRUE, !.converted = TRUE]
                         ELSE cs[i]]

\* UPDATE abandoned_carts SET email_sent_1 = TRUE WHERE id = $1
MarkEmailSent1(cs, id) ==
    [i \in 1..Len(cs) |->
        IF cs[i].id = id THEN [cs[i] EXCEPT !.email_sent_1 = TRUE] ELSE cs[i]]

\* (variant: a WHERE clause without the condition on converted)
CartEligible_IgnoresConverted(row, t) ==
    /\ row.customer_email # NULL
    /\ row.customer_email # ""
    /\ row.email_sent_1 = FALSE
    /\ row.updated_at < t - CART_DWELL

\* WHERE clause of the cart scan's SELECT
CartEligible(row, t) ==
    /\ row.customer_email # NULL
    /\ row.customer_email # ""
    /\ row.converted = FALSE
    /\ row.email_sent_1 = FALSE
    /\ row.updated_at < t - CART_DWELL

\* ORDER BY updated_at ASC LIMIT n over the rows S: the first n rows of every
\* listing of S in ascending updated_at, built from the front by taking a
\* row of the least updated_at among those left
RECURSIVE OrderByUpdatedAtLimit(_, _)
OrderByUpdatedAtLimit(S, n) ==
    IF S = {} \/ n = 0
    THEN {<<>>}
    ELSE UNION {{<<m>> \o q : q \in OrderByUpdatedAtLimit(S \ {m}, n - 1)} :
                   m \in {x \in S : \A y \in S : x.updated_at <= y.updated_at}}

\* the results the cart scan's SELECT can return: ORDER BY updated_at ASC
\* (rows of equal updated_at in either order), LIMIT 10
\* (variant: the SELECT without its LIMIT clause)
CartScanQuery_NoLimit(cs, t) ==
    LET S == {row \in Range(cs) : CartEligible(row, t)}
    IN  OrderByUpdatedAtLimit(S, Cardinality(S))

CartScanQuery(cs, t) ==
    OrderByUpdatedAtLimit({row \in Range(cs) : CartEligible(row, t)}, SCAN_LIMIT)

----------------------------------------------------------------------------
(* Table browse_events *)

\* a falsy productId of a tracking request (absent or 0), and the NULL
\* product_id of a cart entry of email_log
NO_PRODUCT == 0

NewBrowseRow(id, email, productId, image, t) ==
    [id |-> id, customer_email |-> email, product_id |-> productId,
     product_image |-> image, viewed_at |-> t,
     added_to_cart |-> FALSE, email_sent |-> FALSE]

\* (variant: a candidate SELECT without the two conditions on customer_email)
BrowseRowEligible_AnyEmail(row, t) ==
    /\ row.email_sent = FALSE
    /\ row.viewed_at < t - BROWSE_DWELL

\* the row-level conditions of the browse scan's candidate SELECT
BrowseRowEligible(row, t) ==
    /\ row.customer_email # NULL
    /\ row.customer_email # ""
    /\ row.email_sent = FALSE
    /\ row.viewed_at < t - BROWSE_DWELL

\* (variant: a candidate SELECT without the NOT EXISTS condition)
LiveCartExists_Never(cs, email, t) == FALSE

\* the sub-select under NOT EXISTS of the candidate SELECT
LiveCartExists(cs, email, t) ==
    \E ac \in Range(cs) :
        /\ ac.customer_email = email
        /\ ac.converted = FALSE
        /\ ac.updated_at > t - CART_RECENCY

\* the results the candidate SELECT can return: DISTINCT customer_email,
\* no ORDER BY, LIMIT 10
BrowseScanQuery(bs, cs, t) ==
    LET emails == {be.customer_email : be \in
                     {x \in Range(bs) : /\ BrowseRowEligible(x, t)
                                        /\ ~LiveCartExists(cs, x.customer_email, t)}}
        n == IF Cardinality(emails) < SCAN_LIMIT THEN Cardinality(emails) ELSE SCAN_LIMIT
    IN  UNION {Orderings(S) : S \in {T \in SUBSET emails : Cardinality(T) = n}}

\* WHERE clause of the product SELECT
ProductRowEligible(row, email, t) ==
    /\ row.customer_email = email
    /\ row.email_sent = FALSE
    /\ row.viewed_at < t - BROWSE_DWELL

\* the columns the product SELECT returns
ProductColumns(row) ==
    [product_id |-> row.product_id, product_image |-> row.product_image,
     viewed_at |-> row.viewed_at]

\* the results the product SELECT can return: DISTINCT ON (product_id) with
\* ORDER BY product_id, viewed_at DESC keeps, per product, a row of the
\* latest viewed_at (any of them when several share it), in product order
ProductQuery(bs, email, t) ==
    LET elig == {row \in Range(bs) : ProductRowEligible(row, email, t)}
        prods == {row.product_id : row \in elig}
        latest(p) == {row \in elig :
                        /\ row.product_id = p
                        /\ \A o \in elig : o.product_id = p => o.viewed_at <= row.viewed_at}
        picks == {f \in [prods -> elig] : \A p \in prods : f[p] \in latest(p)}
        byProduct == CHOOSE q \in Orderings(prods) :
                        \A i, j \in 1..Len(q) : i < j => q[i] < q[j]
    IN  {[i \in 1..Len(byProduct) |-> ProductColumns(f[byProduct[i]])] : f \in picks}

\* (variant: the rows in the order of the product SELECT, by product_id)
SortByViewedAtDesc_Unsorted(rows) == rows

\* Array.prototype.sort((a, b) => new Date(b.viewed_at) - new Date(a.viewed_at)):
\* descending viewed_at, stable
SortByViewedAtDesc(rows) ==
    LET rank(i) == 1 + Cardinality({j \in 1..Len(rows) :
                        \/ rows[j].viewed_at > rows[i].viewed_at
                        \/ rows[j].viewed_at = rows[i].viewed_at /\ j < i})
    IN  [k \in 1..Len(rows) |-> rows[CHOOSE i \in 1..Len(rows) : rank(i) = k]]

\* productsResult.rows.sort(...).slice(0, 3)
TopProducts(rows) == Take(SortByViewedAtDesc(rows), PRODUCT_LIMIT)

\* (variant: an UPDATE of the single latest view of the email)
MarkBrowseSent_LatestOnly(bs, email) ==
    [i \in 1..Len(bs) |->
        IF /\ bs[i].customer_email = email
           /\ bs[i].email_sent = FALSE
           /\ \A j \in 1..Len(bs) :
                 bs[j].customer_email = email => bs[j].viewed_at <= bs[i].viewed_at
        THEN [bs[i] EXCEPT !.email_sent = TRUE]
        ELSE bs[i]]

\* UPDATE browse_events SET email_sent = TRUE
\* WHERE customer_email = $1 AND email_sent = FALSE
MarkBrowseSent(bs, email) ==
    [i \in 1..Len(bs) |->
        IF bs[i].customer_email = email /\ bs[i].email_sent = FALSE
        THEN [bs[i] EXCEPT !.email_sent = TRUE]
        ELSE bs[i]]

----------------------------------------------------------------------------
(* Notification gate *)

\* (variant: TEST_MODE && email !== TEST_EMAIL, a case-sensitive comparison)
TestModeSkips_CaseSensitive(mode, email) ==
    mode /\ email # TEST_EMAIL

\* TEST_MODE && email.toLowerCase() !== TEST_EMAIL.toLowerCase()
TestModeSkips(mode, email) ==
    mode /\ toLowerCase(email) # toLowerCase(TEST_EMAIL)

----------------------------------------------------------------------------
(* Initial state: empty tables, nothing in flight *)

Idle == [pc |-> "idle"]

Init ==
    /\ now = 0
    /\ testMode \in BOOLEAN
    /\ abandoned_carts = <<>>
    /\ browse_events = <<>>
    /\ email_log = <<>>
    /\ hooks = [h \in Handlers |-> Idle]
    /\ received = 0
    /\ cartScan = [s \in ScanIds |-> Idle]
    /\ browseScan = Idle
    /\ delivered = <<>>
    /\ overlapped = FALSE
    /\ writeFailed = FALSE
    /\ ordered = {}
    /\ last = [op |-> "init"]

storeVars == <<abandoned_carts, browse_events, email_log>>
scanVars == <<cartScan, browseScan, delivered, overlapped, writeFailed>>
hookVars == <<hooks, received>>

----------------------------------------------------------------------------
(* POST /webhooks/cart-created and POST /webhooks/cart-updated *)

\* a cart as GET /v3/carts/{id} returns it (data.data); the whole object is
\* what JSON.stringify(cart) stores in cart_data
PlatformCart(email, customerId, amount) ==
    [email |-> email, customer_id |-> customerId, cart_amount |-> amount]

\* let customerEmail = cart.email;
\* if (!customerEmail && cart.customer_id) customerEmail = await getCustomerEmail(..)
CustomerEmail(cart, looked) ==
    IF ~Truthy(cart.email) /\ Truthy(cart.customer_id) THEN looked ELSE cart.email

\* const cartTotal = cart.cart_amount || 0  (amounts of the model are numbers)
CartTotal(cart) == cart.cart_amount

\* history: a rank above that of every handler still between its fetch and
\* its upsert, so that of two handlers in flight the one that fetched later
\* has the higher rank
FetchRank(hk) ==
    LET ranks == {hk[g].seq : g \in {f \in Handlers : hk[f].pc = "upsert"}}
    IN  IF ranks = {} THEN 1
        ELSE 1 + CHOOSE m \in ranks : \A x \in ranks : x <= m

\* The handler up to its upsert: the cart id of the request, getCartDetails,
\* getCustomerEmail.  `endpoint` is the route, `ids` the cart ids a request
\* may carry, `fetched` the carts the platform may answer with, `looked` the
\* answers of getCustomerEmail, `max` the number of requests the model lets in.
\* Which handler slot a request takes is immaterial: it takes the lowest free one.
\* seq is history: it ranks the fetch after those of the handlers in flight.
CartWebhookFetch(h, endpoint, ids, fetched, looked, max) ==
    /\ hooks[h].pc = "idle"
    /\ \A g \in Handlers : g < h => hooks[g].pc # "idle"
    /\ \/ \* if (!cartId) return 200 {note: 'No cart ID'}
          /\ last' = [op |-> endpoint, note |-> "No cart ID", status |-> 200]
          /\ UNCHANGED <<hooks, received>>
       \/ \* getCartDetails caught an error and returned null
          /\ last' = [op |-> endpoint, note |-> "Could not fetch cart", status |-> 200]
          /\ UNCHANGED <<hooks, received>>
       \/ \E cartId \in ids, cart \in fetched, le \in looked :
            /\ received < max
            /\ received' = received + 1
            /\ hooks' = [hooks EXCEPT ![h] =
                            [pc |-> "upsert", cart_id |-> cartId, cart |-> cart,
                             customerEmail |-> CustomerEmail(cart, le),
                             seq |-> FetchRank(hooks)]]
            /\ last' = [op |-> endpoint, note |-> "fetched"]
    /\ UNCHANGED <<now, testMode, ordered, storeVars, scanVars>>

\* the upsert statement of the handler, then 200 {received: true}
CartWebhookUpsert(h) ==
    /\ hooks[h].pc = "upsert"
    /\ LET hk == hooks[h] IN
        /\ abandoned_carts' = UpsertCart(abandoned_carts, hk.cart_id, hk.customerEmail,
                                          hk.cart.customer_id, hk.cart, CartTotal(hk.cart), now)
        /\ last' = [op |-> "upsert", cart_id |-> hk.cart_id, email |-> hk.customerEmail,
                     customer_id |-> hk.cart.customer_id, cart |-> hk.cart,
                     h |-> h, seq |-> hk.seq, status |-> 200,
                     old |-> SelectSeq(abandoned_carts, LAMBDA r : r.cart_id = hk.cart_id)]
    /\ hooks' = [hooks EXCEPT ![h] = Idle]
    /\ UNCHANGED <<now, testMode, ordered, browse_events, email_log, received, scanVars>>

\* (variant: a catch that answers 500)
CartWebhookUpsertFails_Answers500(h) ==
    /\ hooks[h].pc = "upsert"
    /\ hooks' = [hooks EXCEPT ![h] = Idle]
    /\ last' = [op |-> "upsert-failed", cart_id |-> hooks[h].cart_id, status |-> 500]
    /\ UNCHANGED <<now, testMode, ordered, storeVars, received, scanVars>>

\* pool.query rejects: catch, 200 {received: true, error}
CartWebhookUpsertFails(h) ==
    /\ hooks[h].pc = "upsert"
    /\ hooks' = [hooks EXCEPT ![h] = Idle]
    /\ last' = [op |-> "upsert-failed", cart_id |-> hooks[h].cart_id, status |-> 200]
    /\ UNCHANGED <<now, testMode, ordered, storeVars, received, scanVars>>

----------------------------------------------------------------------------
(* POST /webhooks/order-created *)

\* fetchFromBigCommerce(/v2/orders/{id}) throws or returns an order without a
\* cart_id: nothing is written.  Otherwise the UPDATE by cart_id.
OrderCreated(ids) ==
    /\ \/ /\ last' = [op |-> "order-created", cart_id |-> NULL, status |-> 200]
          /\ UNCHANGED <<abandoned_carts, ordered>>
       \/ \E cartId \in ids :
            /\ abandoned_carts' = MarkConverted(abandoned_carts, cartId, now)
            /\ ordered' = ordered \cup {cartId}
            /\ last' = [op |-> "order-created", cart_id |-> cartId, status |-> 200]
    /\ UNCHANGED <<now, testMode, browse_events, email_log, hookVars, scanVars>>

\* the UPDATE rejects: catch, 200 {received: true, error}
OrderCreatedFails(ids) ==
    /\ \E cartId \in ids :
         last' = [op |-> "order-created-failed", cart_id |-> cartId, status |-> 200]
    /\ UNCHANGED <<now, testMode, ordered, storeVars, hookVars, scanVars>>

----------------------------------------------------------------------------
(* POST /track/product-view *)

\* (variant: a handler without the test of productId)
TrackProductView_StoresWithoutProduct(emails, products, images, max) ==
    /\ \E email \in emails, productId \in products, image \in images :
         /\ received < max
         /\ received' = received + 1
         /\ browse_events' = Append(browse_events,
                NewBrowseRow(Len(browse_events) + 1, email, productId, image, now))
         /\ last' = [op |-> "track", status |-> IF productId = NO_PRODUCT THEN 400 ELSE 200,
                      product_id |-> productId]
    /\ UNCHANGED <<now, testMode, ordered, abandoned_carts, email_log, hooks, scanVars>>

\* (variant: a handler that keeps one row per email and product)
TrackProductView_Merges(emails, products, images, max) ==
    /\ \E email \in emails, productId \in products, image \in images :
         IF productId = NO_PRODUCT
         THEN /\ last' = [op |-> "track", status |-> 400, product_id |-> productId]
              /\ UNCHANGED <<browse_events, received>>
         ELSE /\ received < max
              /\ received' = received + 1
              /\ browse_events' =
                    IF \E i \in 1..Len(browse_events) :
                          /\ browse_events[i].customer_email = email
                          /\ browse_events[i].product_id = productId
                    THEN [i \in 1..Len(browse_events) |->
                            IF /\ browse_events[i].customer_email = email
                               /\ browse_events[i].product_id = productId
                            THEN [browse_events[i] EXCEPT !.viewed_at = now]
                            ELSE browse_events[i]]
                    ELSE Append(browse_events,
                            NewBrowseRow(Len(browse_events) + 1, email, productId, image, now))
              /\ last' = [op |-> "track", status |-> 200, product_id |-> productId]
    /\ UNCHANGED <<now, testMode, ordered, abandoned_carts, email_log, hooks, scanVars>>

\* `emails`, `products`, `images` are the values the request may carry,
\* `max` the number of requests the model lets in
TrackProductView(emails, products, images, max) ==
    /\ \E email \in emails, productId \in products, image \in images :
         IF productId = NO_PRODUCT
         THEN \* if (!productId) return 400
              /\ last' = [op |-> "track", status |-> 400, product_id |-> productId]
              /\ UNCHANGED <<browse_events, received>>
         ELSE /\ received < max
              /\ received' = received + 1
              /\ browse_events' = Append(browse_events,
                     NewBrowseRow(Len(browse_events) + 1, email, productId, image, now))
              /\ last' = [op |-> "track", status |-> 200, product_id |-> productId]
    /\ UNCHANGED <<now, testMode, ordered, abandoned_carts, email_log, hooks, scanVars>>

----------------------------------------------------------------------------
(* The clock *)

\* time passes, up to one of the instants at which the model lets things happen
Tick(instants) ==
    /\ \E t \in instants : t > now /\ now' = t
    /\ last' = [op |-> "tick"]
    /\ UNCHANGED <<testMode, ordered, storeVars, hookVars, scanVars>>

----------------------------------------------------------------------------
(* sendEmailViaMailerLite *)

\* what the call can return for a recipient: false on the test-mode check,
\* otherwise true (sendResponse.ok) or false (an API error, or a caught throw)
SendOutcomes(mode, toEmail) ==
    IF TestModeSkips(mode, toEmail) THEN {FALSE} ELSE BOOLEAN

Delivery(kind, email, cartId, products, t) ==
    [kind |-> kind, email |-> email, cart_id |-> cartId, products |-> products, at |-> t]

LogEntry(type, recipient, cartId, productId) ==
    [email_type |-> type, recipient_email |-> recipient,
     cart_id |-> cartId, product_id |-> productId]

----------------------------------------------------------------------------
(* processAbandonedCarts: a run is idle, or at the top of its loop with the
   unprocessed rest of result.rows, or awaiting the UPDATE ("flag") or the
   INSERT ("log") for the first row of that rest *)

\* the loop goes on with the remaining rows; the run ends when none is left
CartScanContinue(rest) ==
    IF rest = <<>> THEN Idle ELSE [pc |-> "loop", batch |-> rest]

\* the SELECT of a run; cron and the manual trigger start runs without
\* waiting for one another
CartScanSelect(s) ==
    /\ cartScan[s].pc = "idle"
    /\ \E rows \in CartScanQuery(abandoned_carts, now) :
         /\ cartScan' = [cartScan EXCEPT ![s] = CartScanContinue(rows)]
         /\ last' = [op |-> "cart-select", scan |-> s, rows |-> rows]
    /\ overlapped' = (overlapped \/ \E o \in ScanIds \ {s} : cartScan[o].pc # "idle")
    /\ UNCHANGED <<now, testMode, ordered, storeVars, hookVars, browseScan, delivered, writeFailed>>

\* test-mode check of the loop: continue
CartScanSkip(s) ==
    /\ cartScan[s].pc = "loop"
    /\ LET cart == Head(cartScan[s].batch) IN
        /\ TestModeSkips(testMode, cart.customer_email)
        /\ cartScan' = [cartScan EXCEPT ![s] = CartScanContinue(Tail(cartScan[s].batch))]
        /\ last' = [op |-> "cart-skip", scan |-> s, cart_id |-> cart.cart_id,
                     email |-> cart.customer_email]
    /\ UNCHANGED <<now, testMode, ordered, storeVars, hookVars, browseScan, delivered,
                   overlapped, writeFailed>>

\* (variant: a delivery whose failure is thrown to the catch around the run)
CartScanSend_AbortsOnFailure(s) ==
    /\ cartScan[s].pc = "loop"
    /\ LET cart == Head(cartScan[s].batch) IN
        /\ ~TestModeSkips(testMode, cart.customer_email)
        /\ \E success \in SendOutcomes(testMode, cart.customer_email) :
             /\ IF success
                THEN /\ Len(delivered) < MaxDeliveries
                     /\ delivered' = Append(delivered,
                            Delivery("cart", cart.customer_email, cart.cart_id, <<>>, now))
                     /\ cartScan' = [cartScan EXCEPT ![s].pc = "flag"]
                ELSE /\ UNCHANGED delivered
                     /\ cartScan' = [cartScan EXCEPT ![s] = Idle]
             /\ last' = [op |-> "cart-send", scan |-> s, cart_id |-> cart.cart_id,
                          email |-> cart.customer_email, success |-> success]
    /\ UNCHANGED <<now, testMode, ordered, storeVars, hookVars, browseScan, overlapped, writeFailed>>

\* (variant: the UPDATE of email_sent_1 placed before the test of success)
CartScanSend_FlagsAnyway(s) ==
    /\ cartScan[s].pc = "loop"
    /\ LET cart == Head(cartScan[s].batch) IN
        /\ ~TestModeSkips(testMode, cart.customer_email)
        /\ \E success \in SendOutcomes(testMode, cart.customer_email) :
             /\ IF success
                THEN /\ Len(delivered) < MaxDeliveries
                     /\ delivered' = Append(delivered,
                            Delivery("cart", cart.customer_email, cart.cart_id, <<>>, now))
                     /\ cartScan' = [cartScan EXCEPT ![s].pc = "flag"]
                     /\ UNCHANGED abandoned_carts
                ELSE /\ UNCHANGED delivered
                     /\ abandoned_carts' = MarkEmailSent1(abandoned_carts, cart.id)
                     /\ cartScan' = [cartScan EXCEPT ![s] =
                                        CartScanContinue(Tail(cartScan[s].batch))]
             /\ last' = [op |-> "cart-send", scan |-> s, cart_id |-> cart.cart_id,
                          email |-> cart.customer_email, success |-> success]
    /\ UNCHANGED <<now, testMode, ordered, browse_events, email_log, hookVars, browseScan,
                   overlapped, writeFailed>>

\* const success = await sendEmailViaMailerLite(email, subject, htmlContent)
CartScanSend(s) ==
    /\ cartScan[s].pc = "loop"
    /\ LET cart == Head(cartScan[s].batch) IN
        /\ ~TestModeSkips(testMode, cart.customer_email)
        /\ \E success \in SendOutcomes(testMode, cart.customer_email) :
             /\ IF success
                THEN /\ Len(delivered) < MaxDeliveries
                     /\ delivered' = Append(delivered,
                            Delivery("cart", cart.customer_email, cart.cart_id, <<>>, now))
                     /\ cartScan' = [cartScan EXCEPT ![s].pc = "flag"]
                ELSE /\ UNCHANGED delivered
                     /\ cartScan' = [cartScan EXCEPT ![s] =
                                        CartScanContinue(Tail(cartScan[s].batch))]
             /\ last' = [op |-> "cart-send", scan |-> s, cart_id |-> cart.cart_id,
                          email |-> cart.customer_email, success |-> success]
    /\ UNCHANGED <<now, testMode, ordered, storeVars, hookVars, browseScan, overlapped, writeFailed>>

\* UPDATE abandoned_carts SET email_sent_1 = TRUE WHERE id = cart.id
CartScanFlag(s) ==
    /\ cartScan[s].pc = "flag"
    /\ abandoned_carts' = MarkEmailSent1(abandoned_carts, Head(cartScan[s].batch).id)
    /\ cartScan' = [cartScan EXCEPT ![s].pc = "log"]
    /\ last' = [op |-> "cart-flag", scan |-> s, cart_id |-> Head(cartScan[s].batch).cart_id]
    /\ UNCHANGED <<now, testMode, ordered, browse_events, email_log, hookVars, browseScan,
                   delivered, overlapped, writeFailed>>

\* INSERT INTO email_log ... 'abandoned_cart_1'; then the next row
CartScanLog(s) ==
    /\ cartScan[s].pc = "log"
    /\ LET cart == Head(cartScan[s].batch) IN
        /\ email_log' = Append(email_log,
               LogEntry("abandoned_cart_1", cart.customer_email, cart.cart_id, NO_PRODUCT))
        /\ last' = [op |-> "cart-log", scan |-> s, cart_id |-> cart.cart_id]
    /\ cartScan' = [cartScan EXCEPT ![s] = CartScanContinue(Tail(cartScan[s].batch))]
    /\ UNCHANGED <<now, testMode, ordered, abandoned_carts, browse_events, hookVars, browseScan,
                   delivered, overlapped, writeFailed>>

\* the UPDATE or the INSERT rejects: the throw leaves the loop for the one
\* catch around the whole run
CartScanWriteFails(s) ==
    /\ cartScan[s].pc \in {"flag", "log"}
    /\ cartScan' = [cartScan EXCEPT ![s] = Idle]
    /\ writeFailed' = TRUE
    /\ last' = [op |-> "cart-write-failed", scan |-> s]
    /\ UNCHANGED <<now, testMode, ordered, storeVars, hookVars, browseScan, delivered, overlapped>>

----------------------------------------------------------------------------
(* processBrowseAbandonment: idle, or at the top of its loop with the
   unprocessed rest of result.rows, or awaiting the delivery ("send"), the
   UPDATE ("flag") or the INSERT ("log") for the first email of that rest *)

BrowseScanContinue(rest) ==
    IF rest = <<>> THEN Idle ELSE [pc |-> "loop", batch |-> rest, products |-> <<>>]

BrowseScanSelect ==
    /\ browseScan.pc = "idle"
    /\ \E rows \in BrowseScanQuery(browse_events, abandoned_carts, now) :
         /\ browseScan' = BrowseScanContinue(rows)
         /\ last' = [op |-> "browse-select", rows |-> rows]
    /\ UNCHANGED <<now, testMode, ordered, storeVars, hookVars, cartScan, delivered,
                   overlapped, writeFailed>>

\* test-mode check of the loop: continue
BrowseScanSkip ==
    /\ browseScan.pc = "loop"
    /\ TestModeSkips(testMode, Head(browseScan.batch))
    /\ browseScan' = BrowseScanContinue(Tail(browseScan.batch))
    /\ last' = [op |-> "browse-skip", email |-> Head(browseScan.batch)]
    /\ UNCHANGED <<now, testMode, ordered, storeVars, hookVars, cartScan, delivered,
                   overlapped, writeFailed>>

\* the product SELECT, sort, slice; continue when no product is left
BrowseScanProducts ==
    /\ browseScan.pc = "loop"
    /\ ~TestModeSkips(testMode, Head(browseScan.batch))
    /\ \E rows \in ProductQuery(browse_events, Head(browseScan.batch), now) :
         LET products == TopProducts(rows) IN
         /\ browseScan' = IF Len(products) = 0
                           THEN BrowseScanContinue(Tail(browseScan.batch))
                           ELSE [browseScan EXCEPT !.pc = "send", !.products = products]
         /\ last' = [op |-> "browse-products", email |-> Head(browseScan.batch),
                      products |-> products]
    /\ UNCHANGED <<now, testMode, ordered, storeVars, hookVars, cartScan, delivered,
                   overlapped, writeFailed>>

\* const success = await sendEmailViaMailerLite(email, subject, htmlContent)
BrowseScanSend ==
    /\ browseScan.pc = "send"
    /\ LET email == Head(browseScan.batch) IN
        \E success \in SendOutcomes(testMode, email) :
          /\ IF success
             THEN /\ Len(delivered) < MaxDeliveries
                  /\ delivered' = Append(delivered,
                         Delivery("browse", email, NULL, browseScan.products, now))
                  /\ browseScan' = [browseScan EXCEPT !.pc = "flag"]
             ELSE /\ UNCHANGED delivered
                  /\ browseScan' = BrowseScanContinue(Tail(browseScan.batch))
          /\ last' = [op |-> "browse-send", email |-> email, success |-> success]
    /\ UNCHANGED <<now, testMode, ordered, storeVars, hookVars, cartScan, overlapped, writeFailed>>

\* UPDATE browse_events SET email_sent = TRUE WHERE customer_email = $1 AND ...
BrowseScanFlag ==
    /\ browseScan.pc = "flag"
    /\ browse_events' = MarkBrowseSent(browse_events, Head(browseScan.batch))
    /\ browseScan' = [browseScan EXCEPT !.pc = "log"]
    /\ last' = [op |-> "browse-flag", email |-> Head(browseScan.batch)]
    /\ UNCHANGED <<now, testMode, ordered, abandoned_carts, email_log, hookVars, cartScan,
                   delivered, overlapped, writeFailed>>

\* INSERT INTO email_log ... 'browse_abandonment' ... products[0].product_id
BrowseScanLog ==
    /\ browseScan.pc = "log"
    /\ email_log' = Append(email_log,
           LogEntry("browse_abandonment", Head(browseScan.batch), NULL,
                    browseScan.products[1].product_id))
    /\ browseScan' = BrowseScanContinue(Tail(browseScan.batch))
    /\ last' = [op |-> "browse-log", email |-> Head(browseScan.batch)]
    /\ UNCHANGED <<now, testMode, ordered, abandoned_carts, browse_events, hookVars, cartScan,
                   delivered, overlapped, writeFailed>>

BrowseScanWriteFails ==
    /\ browseScan.pc \in {"flag", "log"}
    /\ browseScan' = Idle
    /\ writeFailed' = TRUE
    /\ last' = [op |-> "browse-write-failed"]
    /\ UNCHANGED <<now, testMode, ordered, storeVars, hookVars, cartScan, delivered, overlapped>>

----------------------------------------------------------------------------
(* The whole service, with one webhook handler and one cart scan at a time
   and no failing storage write.  A day passes between the two instants. *)

ServiceFetched ==
    {PlatformCart(OTHER_EMAIL, NULL, 10), PlatformCart(TEST_EMAIL_CASED, NULL, 10)}

Next ==
    \/ CartWebhookFetch(1, "cart-created", CartIds, ServiceFetched, {NULL}, MaxRequests)
    \/ CartWebhookFetch(1, "cart-updated", CartIds, ServiceFetched, {NULL}, MaxRequests)
    \/ CartWebhookUpsert(1)
    \/ CartWebhookUpsertFails(1)
    \/ OrderCreated(CartIds)
    \/ TrackProductView({OTHER_EMAIL, TEST_EMAIL_CASED}, {NO_PRODUCT, 1}, {"img"}, MaxRequests)
    \/ Tick({CART_RECENCY})
    \/ CartScanSelect("cron")
    \/ CartScanSkip("cron")
    \/ CartScanSend("cron")
    \/ CartScanFlag("cron")
    \/ CartScanLog("cron")
    \/ BrowseScanSelect
    \/ BrowseScanSkip
    \/ BrowseScanProducts
    \/ BrowseScanSend
    \/ BrowseScanFlag
    \/ BrowseScanLog

Spec == Init /\ [][Next]_vars

----------------------------------------------------------------------------
(* The cart webhooks alone: two handlers in flight, every kind of cart the
   platform can answer with, the order webhook *)

UpsertFetched ==
    {PlatformCart(NULL, NULL, 10), PlatformCart(NULL, CUSTOMER_ID, 20),
     PlatformCart(OTHER_EMAIL, CUSTOMER_ID, 10), PlatformCart(TEST_EMAIL, NULL, 20),
     PlatformCart("", GUEST_ID, 20)}

NextUpsert ==
    \/ \E h \in Handlers, endpoint \in {"cart-created", "cart-updated"} :
            CartWebhookFetch(h, endpoint, CartIds, UpsertFetched, {NULL, TEST_EMAIL}, MaxUpserts)
    \/ \E h \in Handlers : CartWebhookUpsert(h)
    \/ \E h \in Handlers : CartWebhookUpsertFails(h)
    \/ OrderCreated(CartIds)
    \/ OrderCreatedFails(CartIds)
    \/ Tick({1})

InitUpsert == Init /\ testMode = TRUE

SpecUpsert == InitUpsert /\ [][NextUpsert]_vars

----------------------------------------------------------------------------
(* The cart track live (TEST_MODE false): the cart scan started by cron and
   by the manual trigger, storage writes that fail, one webhook handler *)

CartScanFetched == {PlatformCart(OTHER_EMAIL, NULL, 10)}

NextCartScan ==
    \/ CartWebhookFetch(1, "cart-updated", CartIds, CartScanFetched, {NULL}, MaxCartRequests)
    \/ CartWebhookUpsert(1)
    \/ OrderCreated(CartIds)
    \/ Tick({2})
    \/ \E s \in ScanIds : CartScanSelect(s)
    \/ \E s \in ScanIds : CartScanSend(s)
    \/ \E s \in ScanIds : CartScanFlag(s)
    \/ \E s \in ScanIds : CartScanLog(s)
    \/ \E s \in ScanIds : CartScanWriteFails(s)

InitCartScan == Init /\ testMode = FALSE

SpecCartScan == InitCartScan /\ [][NextCartScan]_vars

----------------------------------------------------------------------------
(* The browse track live (TEST_MODE false) next to the carts that suppress
   it: tracking calls with and without an image, one webhook handler, the
   order webhook, the browse scan; instants on both sides of the 2-hour and
   of the 24-hour threshold *)

BrowseFetched == {PlatformCart(OTHER_EMAIL, NULL, 10), PlatformCart(TEST_EMAIL, NULL, 10)}

NextBrowse ==
    \/ CartWebhookFetch(1, "cart-created", {"c1"}, BrowseFetched, {NULL}, MaxBrowseRequests)
    \/ CartWebhookUpsert(1)
    \/ OrderCreated({"c1"})
    \/ TrackProductView({OTHER_EMAIL}, {1}, {"", "img"}, MaxBrowseRequests)
    \/ Tick({1, 3, 24, 25})
    \/ BrowseScanSelect
    \/ BrowseScanProducts
    \/ BrowseScanSend
    \/ BrowseScanFlag
    \/ BrowseScanLog

InitBrowse == Init /\ testMode = FALSE

SpecBrowse == InitBrowse /\ [][NextBrowse]_vars

----------------------------------------------------------------------------
(* The browse scan over every table of up to MaxViews views of one visitor:
   the views were recorded at the hours 0, 1 and 2, and the scan runs at
   hour 2, 4 or 5 *)

Products == 1..(PRODUCT_LIMIT + 1)

ViewLists ==
    UNION {{q \in [1..n -> Products \X {0, 1, 2}] :
              \A i, j \in 1..n : i < j => q[i][2] <= q[j][2]} : n \in 0..MaxViews}

InitProducts ==
    /\ now = 2
    /\ testMode = TRUE
    /\ abandoned_carts = <<>>
    /\ \E q \in ViewLists :
         browse_events = [i \in 1..Len(q) |-> NewBrowseRow(i, TEST_EMAIL, q[i][1], "img", q[i][2])]
    /\ email_log = <<>>
    /\ hooks = [h \in Handlers |-> Idle]
    /\ received = 0
    /\ cartScan = [s \in ScanIds |-> Idle]
    /\ browseScan = Idle
    /\ delivered = <<>>
    /\ overlapped = FALSE
    /\ writeFailed = FALSE
    /\ ordered = {}
    /\ last = [op |-> "init"]

NextProducts ==
    \/ Tick({4, 5})
    \/ BrowseScanSelect
    \/ BrowseScanProducts
    \/ BrowseScanSend
    \/ BrowseScanFlag
    \/ BrowseScanLog

SpecProducts == InitProducts /\ [][NextProducts]_vars

----------------------------------------------------------------------------
(* Both tracks for one email and one cart, without test mode: a view, a cart,
   and the two scans, three and five hours after the start. *)

TracksFetched == {PlatformCart(OTHER_EMAIL, NULL, 10)}

NextTracks ==
    \/ CartWebhookFetch(1, "cart-created", {"c1"}, TracksFetched, {NULL}, MaxRequests)
    \/ CartWebhookUpsert(1)
    \/ TrackProductView({OTHER_EMAIL}, {1}, {"img"}, MaxRequests)
    \/ Tick({3, 5})
    \/ CartScanSelect("cron")
    \/ CartScanSend("cron")
    \/ CartScanFlag("cron")
    \/ CartScanLog("cron")
    \/ BrowseScanSelect
    \/ BrowseScanProducts
    \/ BrowseScanSend
    \/ BrowseScanFlag
    \/ BrowseScanLog

InitTracks == Init /\ testMode = FALSE

SpecTracks == InitTracks /\ [][NextTracks]_vars

----------------------------------------------------------------------------
(* The cart scan of cron over carts with and without an email, converted
   or not, at, below and above the dwell threshold, without test mode. *)

SelectFetched ==
    {PlatformCart(OTHER_EMAIL, NULL, 10), PlatformCart(NULL, NULL, 10),
     PlatformCart("", NULL, 10)}

NextSelect ==
    \/ \E endpoint \in {"cart-created", "cart-updated"} :
          CartWebhookFetch(1, endpoint, CartIds, SelectFetched, {NULL}, MaxSelectRequests)
    \/ CartWebhookUpsert(1)
    \/ OrderCreated(CartIds)
    \/ Tick({1, 2, 3})
    \/ CartScanSelect("cron")
    \/ CartScanSend("cron")
    \/ CartScanFlag("cron")
    \/ CartScanLog("cron")

InitSelect == Init /\ testMode = FALSE

SpecSelect == InitSelect /\ [][NextSelect]_vars

----------------------------------------------------------------------------
(* Carts without an email and tracking calls that carry one. *)

AnonymousFetched == {PlatformCart(NULL, NULL, 10)}

NextAnonymous ==
    \/ CartWebhookFetch(1, "cart-created", CartIds, AnonymousFetched, {NULL}, MaxRequests)
    \/ CartWebhookUpsert(1)
    \/ OrderCreated(CartIds)
    \/ TrackProductView({OTHER_EMAIL}, {1}, {"img"}, MaxRequests)
    \/ Tick({1})

InitAnonymous == Init /\ testMode = FALSE

SpecAnonymous == InitAnonymous /\ [][NextAnonymous]_vars

----------------------------------------------------------------------------
(* The scans over a table that holds more carts than one run takes: ten or
   more carts of one shopper, each last updated at an hour of its own or, for
   one pair, at the same hour, in an order that is not the order of the
   rows; one of them may be converted; beside the plain tables (every hour
   its own, in the order of the rows, none converted) one old view of
   another visitor *)

BatchCartIds == <<"k01", "k02", "k03", "k04", "k05", "k06", "k07", "k08", "k09", "k10",
                  "k11", "k12", "k13">>

\* the table of n carts whose hours of update are those of the rows turned
\* by shift; with tie the first row shares the hour of the second, and the
\* row at conv (if any) is converted
BatchTable(n, shift, tie, conv) ==
    [i \in 1..n |->
        [NewCartRow(i, BatchCartIds[i], OTHER_EMAIL, CUSTOMER_ID, "cart", 10,
                    IF tie /\ i = 1 THEN (2 + shift) % n ELSE (i + shift) % n)
           EXCEPT !.converted = (i = conv)]]

InitBatch ==
    /\ testMode = FALSE
    /\ \E n \in SCAN_LIMIT..(SCAN_LIMIT + MaxBatchExtra), shift \in 0..MaxShift,
          tie \in BOOLEAN :
         \E conv \in {0, n} :
            /\ abandoned_carts = BatchTable(n, shift, tie, conv)
            /\ now = n + CART_RECENCY + 1
            /\ browse_events = IF shift = 0 /\ ~tie /\ conv = 0
                               THEN <<NewBrowseRow(1, TEST_EMAIL_CASED, 1, "img", 0)>>
                               ELSE <<>>
    /\ email_log = <<>>
    /\ hooks = [h \in Handlers |-> Idle]
    /\ received = 0
    /\ cartScan = [s \in ScanIds |-> Idle]
    /\ browseScan = Idle
    /\ delivered = <<>>
    /\ overlapped = FALSE
    /\ writeFailed = FALSE
    /\ ordered = {}
    /\ last = [op |-> "init"]

NextBatch ==
    \/ CartScanSelect("cron")
    \/ CartScanSend("cron")
    \/ CartScanFlag("cron")
    \/ CartScanLog("cron")
    \/ BrowseScanSelect
    \/ BrowseScanProducts
    \/ BrowseScanSend
    \/ BrowseScanFlag
    \/ BrowseScanLog

SpecBatch == InitBatch /\ [][NextBatch]_vars

\* cron starts a cart scan every five minutes, and a run that awaits a call
\* or a statement is resumed when it returns
FairBatch ==
    /\ WF_vars(CartScanSelect("cron"))
    /\ WF_vars(CartScanSend("cron"))
    /\ WF_vars(CartScanFlag("cron"))
    /\ WF_vars(CartScanLog("cron"))

LiveBatch == InitBatch /\ [][NextBatch]_vars /\ FairBatch

----------------------------------------------------------------------------
(* Views of visitors with and without an email: tracking calls whose email is
   absent (stored as NULL), empty, or an address, and the browse scan, whose
   writes may be rejected, one and three hours after the start *)

NextVisitors ==
    \/ TrackProductView({NULL, "", OTHER_EMAIL}, {1}, {"img"}, MaxVisitorRequests)
    \/ Tick({1, 3})
    \/ BrowseScanSelect
    \/ BrowseScanProducts
    \/ BrowseScanSend
    \/ BrowseScanFlag
    \/ BrowseScanLog
    \/ BrowseScanWriteFails

InitVisitors == Init /\ testMode = FALSE

SpecVisitors == InitVisitors /\ [][NextVisitors]_vars

----------------------------------------------------------------------------
(* Flags, log and deliveries: one cart of one shopper and views of another
   visitor, without test mode; the cart scans of cron and of the manual
   trigger and the browse scan three hours later, with writes that may be
   rejected *)

AuditFetched == {PlatformCart(OTHER_EMAIL, NULL, 10)}

NextAudit ==
    \/ CartWebhookFetch(1, "cart-created", {"c1"}, AuditFetched, {NULL}, MaxAuditRequests)
    \/ CartWebhookUpsert(1)
    \/ TrackProductView({TEST_EMAIL_CASED}, {1}, {"img"}, MaxAuditRequests)
    \/ Tick({3})
    \/ \E s \in ScanIds : CartScanSelect(s)
    \/ \E s \in ScanIds : CartScanSend(s)
    \/ \E s \in ScanIds : CartScanFlag(s)
    \/ \E s \in ScanIds : CartScanLog(s)
    \/ \E s \in ScanIds : CartScanWriteFails(s)
    \/ BrowseScanSelect
    \/ BrowseScanProducts
    \/ BrowseScanSend
    \/ BrowseScanFlag
    \/ BrowseScanLog
    \/ BrowseScanWriteFails

InitAudit == Init /\ testMode = FALSE

SpecAudit == InitAudit /\ [][NextAudit]_vars

----------------------------------------------------------------------------
(* One person under two spellings of one address: the cart carries the
   address in lower case, the views carry it in lower case or with a capital,
   in test mode, whose allow-list is that address; the browse scan runs three
   hours later *)

CaseFetched == {PlatformCart(TEST_EMAIL, NULL, 10)}

NextCase ==
    \/ CartWebhookFetch(1, "cart-updated", {"c1"}, CaseFetched, {NULL}, MaxCaseRequests)
    \/ CartWebhookUpsert(1)
    \/ TrackProductView({TEST_EMAIL, TEST_EMAIL_CASED}, {1}, {"img"}, MaxCaseRequests)
    \/ Tick({3})
    \/ BrowseScanSelect
    \/ BrowseScanProducts
    \/ BrowseScanSend
    \/ BrowseScanFlag
    \/ BrowseScanLog

InitCase == Init /\ testMode = TRUE

SpecCase == InitCase /\ [][NextCase]_vars

----------------------------------------------------------------------------
(* Properties *)

\* the row of table cs with cart identifier cartId
CartRowOf(cs, cartId) == CHOOSE r \in Range(cs) : r.cart_id = cartId

HasCartRow(cs, cartId) == \E r \in Range(cs) : r.cart_id = cartId

\* C1: an upsert on an existing row keeps the stored email when the incoming
\* email is null and stores the incoming email otherwise, likewise for the
\* customer identifier; snapshot, total and update-timestamp are replaced
\* by the incoming snapshot, its total and the current time.
UpsertCoalesces ==
    [][\A h \in Handlers :
          (/\ hooks[h].pc = "upsert"
           /\ hooks'[h].pc = "idle"
           /\ last'.op = "upsert"
           /\ HasCartRow(abandoned_carts, hooks[h].cart_id))
          => LET req == hooks[h]
                 old == CartRowOf(abandoned_carts, req.cart_id)
                 new == CartRowOf(abandoned_carts', req.cart_id)
             IN  /\ new.customer_email =
                       (IF req.customerEmail = NULL THEN old.customer_email
                                                    ELSE req.customerEmail)
                 /\ new.customer_id =
                       (IF req.cart.customer_id = NULL THEN old.customer_id
                                                       ELSE req.cart.customer_id)
                 /\ new.cart_data = req.cart
                 /\ new.cart_total = req.cart.cart_amount
                 /\ new.updated_at = now]_vars

\* C1 witness: a row that held y@x.com and customer 7 has just been upserted
\* with another email and a null customer identifier, an hour later: the
\* email is the incoming one, the customer identifier is still 7, and the
\* snapshot and the timestamp are the new ones.
UpsertCoalescesWitness ==
    /\ last.op = "upsert"
    /\ Len(last.old) = 1
    /\ last.old[1].customer_email = OTHER_EMAIL
    /\ last.old[1].customer_id = CUSTOMER_ID
    /\ last.email = TEST_EMAIL
    /\ last.customer_id = NULL
    /\ LET row == CartRowOf(abandoned_carts, last.cart_id) IN
        /\ row.customer_email = TEST_EMAIL
        /\ row.customer_id = CUSTOMER_ID
        /\ row.cart_data = last.cart
        /\ row.cart_data # last.old[1].cart_data
        /\ row.updated_at > last.old[1].updated_at

\* C2: no two rows share a cart identifier; the row an upsert has just
\* created is unconverted with its three stage flags false; and the row an
\* upsert has just written holds that upsert's snapshot.
OneRowPerCart ==
    /\ \A i, j \in 1..Len(abandoned_carts) :
          abandoned_carts[i].cart_id = abandoned_carts[j].cart_id => i = j
    /\ last.op = "upsert" =>
          LET row == CartRowOf(abandoned_carts, last.cart_id) IN
          /\ row.cart_data = last.cart
          /\ last.old = <<>> =>
                /\ row.converted = FALSE
                /\ row.email_sent_1 = FALSE
                /\ row.email_sent_2 = FALSE
                /\ row.email_sent_3 = FALSE

\* C2 witness: two handlers were in flight at once for the same never-seen
\* identifier with differing snapshots (the second request took slot 2
\* because slot 1 was busy, and only two requests were let in); both have
\* upserted, the one of slot 2 last: one row, with the snapshot of slot 2.
OneRowPerCartWitness ==
    /\ received = 2
    /\ last.op = "upsert"
    /\ last.h = 2
    /\ Len(last.old) = 1
    /\ last.old[1].cart_data # last.cart
    /\ Len(abandoned_carts) = 1
    /\ abandoned_carts[1].cart_data = last.cart
    /\ abandoned_carts[1].converted = FALSE

\* C3: no step removes a row or sets back to false a cart's converted flag,
\* a cart's email_sent_1 flag or a browse event's email_sent flag.
TerminalFlagsNeverRevert ==
    [][/\ Len(abandoned_carts') >= Len(abandoned_carts)
       /\ \A i \in 1..Len(abandoned_carts) :
             /\ abandoned_carts'[i].cart_id = abandoned_carts[i].cart_id
             /\ abandoned_carts[i].converted => abandoned_carts'[i].converted
             /\ abandoned_carts[i].email_sent_1 => abandoned_carts'[i].email_sent_1
       /\ Len(browse_events') >= Len(browse_events)
       /\ \A i \in 1..Len(browse_events) :
             /\ browse_events'[i].id = browse_events[i].id
             /\ browse_events[i].email_sent => browse_events'[i].email_sent]_vars

\* C3 witness: a cart that was notified and then converted has just been
\* upserted again, and is still notified and converted.
TerminalFlagsNeverRevertWitness ==
    /\ last.op = "upsert"
    /\ Len(last.old) = 1
    /\ last.old[1].converted
    /\ last.old[1].email_sent_1
    /\ LET row == CartRowOf(abandoned_carts, last.cart_id) IN
        /\ row.converted
        /\ row.email_sent_1
        /\ row.updated_at = now

\* the successful cart notifications of cart cartId so far
CartDeliveries(cartId) ==
    {i \in 1..Len(delivered) :
        delivered[i].kind = "cart" /\ delivered[i].cart_id = cartId}

\* C4: as long as no cart scan run has started while another was running
\* and no write of a scan has failed, every cart has had at most one
\* successful cart notification, and the SELECT of a run returns no cart
\* whose email_sent_1 is true.
AtMostOneCartNotification ==
    (~overlapped /\ ~writeFailed) =>
        /\ \A c \in CartIds : Cardinality(CartDeliveries(c)) <= 1
        /\ last.op = "cart-select" =>
              \A r \in Range(last.rows) :
                 ~CartRowOf(abandoned_carts, r.cart_id).email_sent_1

\* C4 witness: without overlap or failed write, a run has just selected
\* nothing although a cart that was notified once has an email, is not
\* converted and was last updated before the dwell cutoff.
AtMostOneCartNotificationWitness ==
    /\ ~overlapped
    /\ ~writeFailed
    /\ last.op = "cart-select"
    /\ last.rows = <<>>
    /\ \E row \in Range(abandoned_carts) :
          /\ row.email_sent_1
          /\ ~row.converted
          /\ row.customer_email = OTHER_EMAIL
          /\ row.updated_at < now - CART_DWELL
          /\ Cardinality(CartDeliveries(row.cart_id)) = 1

\* email e has a view that is not notified and older than the dwell threshold
HasOldUnnotifiedView(e) ==
    \E be \in Range(browse_events) :
        /\ be.customer_email = e
        /\ ~be.email_sent
        /\ now - be.viewed_at > BROWSE_DWELL

\* email e has a cart that is not converted and was updated less than the
\* recency window ago
HasRecentOpenCart(e) ==
    \E ac \in Range(abandoned_carts) :
        /\ ac.customer_email = e
        /\ ~ac.converted
        /\ now - ac.updated_at < CART_RECENCY

\* C5: the candidate SELECT of the browse scan returns an email exactly when
\* the email has an un-notified view older than 2 hours and no non-converted
\* cart updated within the last 24 hours: never an email with such a cart,
\* and again as soon as every cart of the email is converted or was updated
\* 24 hours ago or earlier.
BrowseSelectionExcludesRecentCarts ==
    last.op = "browse-select" =>
        \A e \in {OTHER_EMAIL, TEST_EMAIL} :
            e \in Range(last.rows) <=> (HasOldUnnotifiedView(e) /\ ~HasRecentOpenCart(e))

\* C5 witness: the SELECT has just returned nothing although y@x.com has an
\* un-notified view older than 2 hours, because y@x.com has a non-converted
\* cart updated within the last 24 hours.
BrowseSelectionExcludesRecentCartsWitness ==
    /\ last.op = "browse-select"
    /\ last.rows = <<>>
    /\ HasOldUnnotifiedView(OTHER_EMAIL)
    /\ HasRecentOpenCart(OTHER_EMAIL)

\* C6: no email has a successful cart notification and a successful browse
\* notification less than 24 hours apart.
TracksNeverBothFire ==
    \A i, j \in 1..Len(delivered) :
        (/\ delivered[i].kind = "cart"
         /\ delivered[j].kind = "browse"
         /\ delivered[i].email = delivered[j].email)
        => \/ delivered[i].at - delivered[j].at >= CART_RECENCY
           \/ delivered[j].at - delivered[i].at >= CART_RECENCY

\* C9: the product SELECT returns no view without an image, no browse
\* notification includes one, and every email the candidate SELECT returns
\* has an un-notified view older than the dwell threshold with an image.
ImagelessViewsNeverSelected ==
    /\ last.op = "browse-products" =>
          \A i \in 1..Len(last.products) : last.products[i].product_image \notin {"", NULL}
    /\ \A i \in 1..Len(delivered) :
          \A k \in 1..Len(delivered[i].products) :
             delivered[i].products[k].product_image \notin {"", NULL}
    /\ last.op = "browse-select" =>
          \A e \in Range(last.rows) :
             \E be \in Range(browse_events) :
                /\ be.customer_email = e
                /\ ~be.email_sent
                /\ now - be.viewed_at > BROWSE_DWELL
                /\ be.product_image \notin {"", NULL}

EligibleViews(e) ==
    {be \in Range(browse_events) :
        /\ be.customer_email = e
        /\ ~be.email_sent
        /\ now - be.viewed_at > BROWSE_DWELL}

\* C8: the products selected for an email are at most 3, of pairwise
\* distinct products, each the latest eligible view of its product, in
\* descending order of view time; they are as many as the limit and the
\* number of products allow, and no product left out was viewed later than
\* one included.
SelectedProductsLatestPerProduct ==
    last.op = "browse-products" =>
        LET ps == last.products
            elig == EligibleViews(last.email)
        IN  /\ Len(ps) <= PRODUCT_LIMIT
            /\ \A i, j \in 1..Len(ps) : ps[i].product_id = ps[j].product_id => i = j
            /\ \A i \in 1..Len(ps) :
                  /\ \E be \in elig : /\ be.product_id = ps[i].product_id
                                       /\ be.viewed_at = ps[i].viewed_at
                  /\ \A be \in elig : be.product_id = ps[i].product_id
                                         => be.viewed_at <= ps[i].viewed_at
            /\ \A i, j \in 1..Len(ps) : i < j => ps[i].viewed_at >= ps[j].viewed_at
            /\ \/ Len(ps) = PRODUCT_LIMIT
               \/ Len(ps) = Cardinality({be.product_id : be \in elig})
            /\ \A be \in elig :
                  (\A i \in 1..Len(ps) : ps[i].product_id # be.product_id)
                  => \A i \in 1..Len(ps) : be.viewed_at <= ps[i].viewed_at

\* C8 witness: views of product 2 at hour 0, of product 1 at hour 1 and of
\* product 2 again at hour 2 yield product 2 (the view of hour 2), then
\* product 1.
SelectedProductsLatestPerProductWitness ==
    /\ last.op = "browse-products"
    /\ Len(browse_events) = 3
    /\ browse_events[1].product_id = 2 /\ browse_events[1].viewed_at = 0
    /\ browse_events[2].product_id = 1 /\ browse_events[2].viewed_at = 1
    /\ browse_events[3].product_id = 2 /\ browse_events[3].viewed_at = 2
    /\ Len(last.products) = 2
    /\ last.products[1].product_id = 2 /\ last.products[1].viewed_at = 2
    /\ last.products[2].product_id = 1 /\ last.products[2].viewed_at = 1

\* the email differs from the allow-listed address even when case is ignored
NotAllowListed(email) == toLowerCase(email) # toLowerCase(TEST_EMAIL)

\* C10: in test mode, the step a cart scan or the browse scan takes for a
\* candidate whose email differs from the allow-listed address ignoring
\* case delivers nothing, changes no table and moves on to the rest of the
\* batch; the step it takes for a candidate whose email equals that address
\* ignoring case is not a skip: a cart scan calls the delivery, and a
\* success is recorded and leads to the flag; the browse scan selects the
\* products.
TestModeGate ==
    [][testMode =>
         /\ \A s \in ScanIds :
               (cartScan[s].pc = "loop" /\ cartScan'[s] # cartScan[s]) =>
                  LET cart == Head(cartScan[s].batch)
                      rest == Tail(cartScan[s].batch)
                  IN  IF NotAllowListed(cart.customer_email)
                      THEN /\ delivered' = delivered
                           /\ abandoned_carts' = abandoned_carts
                           /\ browse_events' = browse_events
                           /\ email_log' = email_log
                           /\ cartScan'[s] = IF rest = <<>>
                                               THEN [pc |-> "idle"]
                                               ELSE [pc |-> "loop", batch |-> rest]
                      ELSE /\ last'.op = "cart-send"
                           /\ last'.success =>
                                 /\ Len(delivered') = Len(delivered) + 1
                                 /\ delivered'[Len(delivered')].cart_id = cart.cart_id
                                 /\ delivered'[Len(delivered')].email = cart.customer_email
                                 /\ cartScan'[s].pc = "flag"
         /\ (browseScan.pc = "loop" /\ browseScan' # browseScan) =>
               LET email == Head(browseScan.batch)
                   rest == Tail(browseScan.batch)
               IN  IF NotAllowListed(email)
                   THEN /\ delivered' = delivered
                        /\ abandoned_carts' = abandoned_carts
                        /\ browse_events' = browse_events
                        /\ email_log' = email_log
                        /\ browseScan' = IF rest = <<>>
                                          THEN [pc |-> "idle"]
                                          ELSE [pc |-> "loop", batch |-> rest,
                                                products |-> <<>>]
                   ELSE /\ last'.op = "browse-products"
                        /\ browseScan'.pc = "send"]_vars

\* C10 witness: in test mode a cart scan selected the carts of y@x.com and
\* of RJeremyHindman@Gmail.com; it has passed the first without a delivery,
\* a flag or a log entry, and has just delivered for the second.
TestModeGateWitness ==
    /\ testMode
    /\ last.op = "cart-send"
    /\ last.success
    /\ last.email = TEST_EMAIL_CASED
    /\ Len(cartScan["cron"].batch) = 1
    /\ Len(delivered) = 1
    /\ delivered[1].email = TEST_EMAIL_CASED
    /\ email_log = <<>>
    /\ \E row \in Range(abandoned_carts) :
          /\ row.customer_email = OTHER_EMAIL
          /\ ~row.email_sent_1
          /\ ~row.converted
          /\ row.updated_at < now - CART_DWELL

\* at time t the cart row has an email, is neither converted nor notified,
\* and was last updated more than the dwell threshold ago
AbandonedAt(row, t) ==
    /\ row.customer_email \notin {NULL, ""}
    /\ ~row.converted
    /\ ~row.email_sent_1
    /\ t - row.updated_at > CART_DWELL

\* C11: the rows a cart scan's SELECT returns are exactly the rows that, at
\* that moment, have an email, are not converted, are not notified and were
\* updated more than 1 hour ago; the rows a run works through afterwards
\* are those rows and no others, and the cart a delivery is called for is
\* one of them.
CartSelectionPredicate ==
    [][/\ last'.op = "cart-select" =>
             /\ Range(last'.rows) =
                   {r \in Range(abandoned_carts) : AbandonedAt(r, now)}
             /\ cartScan'[last'.scan] =
                   IF last'.rows = <<>> THEN [pc |-> "idle"]
                                        ELSE [pc |-> "loop", batch |-> last'.rows]
       /\ \A s \in ScanIds :
             (cartScan'[s] # cartScan[s] /\ cartScan[s].pc # "idle") =>
                /\ cartScan'[s].pc # "idle" =>
                      cartScan'[s].batch \in {cartScan[s].batch, Tail(cartScan[s].batch)}
                /\ last'.op = "cart-send" =>
                      last'.cart_id = Head(cartScan[s].batch).cart_id]_vars

\* C11 witness: of two carts updated at the same time, both older than the
\* dwell threshold, the one without an email was left out by the SELECT and
\* the delivery has just been called for the other.
CartSelectionPredicateWitness ==
    /\ last.op = "cart-send"
    /\ last.success
    /\ cartScan["cron"].pc = "flag"
    /\ Len(cartScan["cron"].batch) = 1
    /\ Len(abandoned_carts) = 2
    /\ \E r \in Range(abandoned_carts) :
          /\ r.cart_id # last.cart_id
          /\ r.customer_email = NULL
          /\ ~r.converted
          /\ ~r.email_sent_1
          /\ r.updated_at = CartRowOf(abandoned_carts, last.cart_id).updated_at

\* how many deliveries of the list d are cart notifications of cart cartId
CartDeliveryCount(d, cartId) ==
    Cardinality({i \in 1..Len(d) : d[i].kind = "cart" /\ d[i].cart_id = cartId})

\* how many entries of the log are abandoned_cart_1 entries of cart cartId
CartLogCount(log, cartId) ==
    Cardinality({i \in 1..Len(log) :
        log[i].email_type = "abandoned_cart_1" /\ log[i].cart_id = cartId})

FailureLeavesStoreUnchanged ==
    [][(\/ last'.op \in {"cart-skip", "browse-skip"}
        \/ last'.op \in {"cart-send", "browse-send"} /\ ~last'.success)
       => /\ abandoned_carts' = abandoned_carts
          /\ browse_events' = browse_events
          /\ email_log' = email_log
          /\ delivered' = delivered
          /\ last'.op \in {"cart-skip", "cart-send"} =>
                LET cart == Head(cartScan[last'.scan].batch) IN
                cart \in Range(abandoned_carts) =>
                   /\ ~CartRowOf(abandoned_carts', cart.cart_id).email_sent_1
                   /\ \A rows \in CartScanQuery(abandoned_carts', now') :
                         cart \in Range(rows)]_vars

\* C13 witness: the delivery for a cart has just failed and the run is over;
\* nothing was delivered or logged, the cart is not flagged, and it is old
\* enough, with an email and unconverted, for the next run to select it.
FailureLeavesStoreUnchangedWitness ==
    /\ last.op = "cart-send"
    /\ ~last.success
    /\ cartScan["cron"].pc = "idle"
    /\ delivered = <<>>
    /\ email_log = <<>>
    /\ LET row == CartRowOf(abandoned_carts, last.cart_id) IN
        /\ ~row.email_sent_1
        /\ ~row.converted
        /\ row.customer_email = last.email
        /\ now - row.updated_at > CART_DWELL

\* C14: an order-created event that resolves to a cart identifier sets
\* converted and refreshes updated_at on the row of that identifier, leaves
\* every other row and every other table as they were, adds no row (so it
\* changes nothing when no row has the identifier), and answers 200.
OrderCreatedFrame ==
    [][(last'.op = "order-created" /\ last'.cart_id # NULL) =>
          /\ last'.status = 200
          /\ Len(abandoned_carts') = Len(abandoned_carts)
          /\ \A i \in 1..Len(abandoned_carts) :
                abandoned_carts'[i] =
                   IF abandoned_carts[i].cart_id = last'.cart_id
                   THEN [abandoned_carts[i] EXCEPT !.converted = TRUE, !.updated_at = now]
                   ELSE abandoned_carts[i]
          /\ ~HasCartRow(abandoned_carts, last'.cart_id) =>
                abandoned_carts' = abandoned_carts
          /\ browse_events' = browse_events
          /\ email_log' = email_log]_vars

\* C14 witness: of two carts stored at hour 0, an order for one has just
\* been handled at hour 1: that row is converted and carries the new
\* timestamp, the other is unconverted with its old timestamp.
OrderCreatedFrameWitness ==
    /\ last.op = "order-created"
    /\ last.cart_id # NULL
    /\ Len(abandoned_carts) = 2
    /\ \E i, j \in 1..2 :
          /\ abandoned_carts[i].cart_id = last.cart_id
          /\ abandoned_carts[i].converted
          /\ abandoned_carts[i].updated_at = now
          /\ abandoned_carts[j].cart_id # last.cart_id
          /\ ~abandoned_carts[j].converted
          /\ abandoned_carts[j].updated_at < now

\* C15: a cart that is converted stays converted through every step, an
\* upsert for its identifier included, and the SELECT of a cart scan
\* returns no cart that is converted when it runs.
ConversionIsPermanent ==
    [][/\ \A c \in CartIds :
             (HasCartRow(abandoned_carts, c) /\ CartRowOf(abandoned_carts, c).converted)
             => (HasCartRow(abandoned_carts', c) /\ CartRowOf(abandoned_carts', c).converted)
       /\ last'.op = "cart-select" =>
             \A i \in 1..Len(last'.rows) :
                ~CartRowOf(abandoned_carts, last'.rows[i].cart_id).converted]_vars

\* C15 witness: a scan has just selected nothing although the one cart, for
\* whose identifier two webhooks have been handled, has an email, is not
\* notified and was last written more than an hour ago: it is converted.
ConversionIsPermanentWitness ==
    /\ last.op = "cart-select"
    /\ last.rows = <<>>
    /\ received = 2
    /\ hooks[1].pc = "idle"
    /\ Len(abandoned_carts) = 1
    /\ abandoned_carts[1].converted
    /\ abandoned_carts[1].customer_email = OTHER_EMAIL
    /\ ~abandoned_carts[1].email_sent_1
    /\ now - abandoned_carts[1].updated_at > CART_DWELL

\* the step ends a request to a webhook endpoint with a response
WebhookResponded(l) ==
    /\ l.op \in {"cart-created", "cart-updated", "upsert", "upsert-failed",
                  "order-created", "order-created-failed"}
    /\ l.op \in {"cart-created", "cart-updated"} => l.note # "fetched"

\* C16: every response of cart-created, cart-updated and order-created has
\* status 200: without a cart identifier, after a failed cart fetch, after
\* an order without a cart, after a rejected upsert or UPDATE, and on
\* success; and the responses without an identifier, after a failed fetch
\* and after a rejected statement leave the tables unchanged.
WebhooksAlwaysAnswer200 ==
    [][WebhookResponded(last') =>
          /\ last'.status = 200
          /\ last'.op \in {"cart-created", "cart-updated", "upsert-failed",
                            "order-created-failed"} =>
                /\ abandoned_carts' = abandoned_carts
                /\ browse_events' = browse_events
                /\ email_log' = email_log]_vars

\* C16 witness: the upsert of the only webhook received so far was
\* rejected by the database: the response has status 200 and no row exists.
WebhooksAlwaysAnswer200Witness ==
    /\ last.op = "upsert-failed"
    /\ last.status = 200
    /\ received = 1
    /\ abandoned_carts = <<>>
    /\ \A h \in Handlers : hooks[h].pc = "idle"

\* C17: a tracking call without a product identifier is answered 400 and
\* changes no table.
TrackingRequiresProduct ==
    [][(last'.op = "track" /\ last'.product_id = NO_PRODUCT) =>
          /\ last'.status = 400
          /\ browse_events' = browse_events
          /\ abandoned_carts' = abandoned_carts
          /\ email_log' = email_log]_vars

\* C17 witness: after one view was recorded, a call without a product
\* identifier has just been answered 400, and the one row is all there is.
TrackingRequiresProductWitness ==
    /\ last.op = "track"
    /\ last.product_id = NO_PRODUCT
    /\ last.status = 400
    /\ received = 1
    /\ Len(browse_events) = 1
    /\ abandoned_carts = <<>>

\* C18: a tracking call with a product identifier appends one row, with
\* that product and email_sent false, and leaves the rows before it as they
\* were; no other step adds or removes a row or changes one, but for the
\* browse scan setting email_sent.  So the rows are as many as the accepted
\* tracking calls.
BrowseEventsAppendOnly ==
    [][IF last'.op = "track" /\ last'.status = 200
       THEN /\ last'.product_id # NO_PRODUCT
            /\ Len(browse_events') = Len(browse_events) + 1
            /\ SubSeq(browse_events', 1, Len(browse_events)) = browse_events
            /\ browse_events'[Len(browse_events')].product_id = last'.product_id
            /\ browse_events'[Len(browse_events')].email_sent = FALSE
            /\ browse_events'[Len(browse_events')].viewed_at = now
            /\ \A i \in 1..Len(browse_events) :
                  browse_events'[Len(browse_events')].id # browse_events[i].id
       ELSE /\ Len(browse_events') = Len(browse_events)
            /\ \A i \in 1..Len(browse_events) :
                  \/ browse_events'[i] = browse_events[i]
                  \/ /\ last'.op = "browse-flag"
                     /\ browse_events'[i] = [browse_events[i] EXCEPT !.email_sent = TRUE]]_vars

\* C18 witness: two views of the same product by the same email, a day
\* apart, are two rows, both un-notified, the earlier with its own time.
BrowseEventsAppendOnlyWitness ==
    /\ last.op = "track"
    /\ last.status = 200
    /\ Len(browse_events) = 2
    /\ browse_events[1].customer_email = browse_events[2].customer_email
    /\ browse_events[1].product_id = browse_events[2].product_id
    /\ browse_events[1].viewed_at < browse_events[2].viewed_at
    /\ ~browse_events[1].email_sent
    /\ ~browse_events[2].email_sent

\* the rows of table cs that are not converted, have no email and were
\* updated at the present instant (less than an hour ago)
RecentCartsWithoutEmail(cs) ==
    {i \in 1..Len(cs) : /\ ~cs[i].converted
                        /\ cs[i].customer_email \in {NULL, ""}
                        /\ cs[i].updated_at = now}

\* C19: when an accepted tracking call carries an email while some
\* non-converted cart without an email was updated within the recency
\* window, the most recently updated such cart holds that email after the
\* call.
TrackingAssociatesEmail ==
    [][(/\ last'.op = "track"
        /\ last'.status = 200
        /\ RecentCartsWithoutEmail(abandoned_carts) # {})
       => \E i \in RecentCartsWithoutEmail(abandoned_carts) :
             /\ \A j \in RecentCartsWithoutEmail(abandoned_carts) :
                   abandoned_carts[j].updated_at <= abandoned_carts[i].updated_at
             /\ abandoned_carts'[i].customer_email =
                   browse_events'[Len(browse_events')].customer_email]_vars

\* C20: after a failed delivery the run is at the top of its loop with
\* every remaining candidate of the batch, in order, or is over when none
\* remains; in the cart scan and in the browse scan.
FailedDeliveryDoesNotAbort ==
    [][/\ (last'.op = "cart-send" /\ ~last'.success) =>
             LET rest == Tail(cartScan[last'.scan].batch) IN
             cartScan'[last'.scan] = IF rest = <<>> THEN [pc |-> "idle"]
                                                    ELSE [pc |-> "loop", batch |-> rest]
       /\ (last'.op = "browse-send" /\ ~last'.success) =>
             LET rest == Tail(browseScan.batch) IN
             browseScan' = IF rest = <<>> THEN [pc |-> "idle"]
                                          ELSE [pc |-> "loop", batch |-> rest,
                                                products |-> <<>>]]_vars

\* C20 witness: without test mode, a run selected two carts; the delivery
\* for the first failed (nothing delivered for it, not flagged, no longer
\* ahead in the run) and the delivery for the second has just succeeded.
FailedDeliveryDoesNotAbortWitness ==
    /\ ~testMode
    /\ last.op = "cart-send"
    /\ last.success
    /\ cartScan["cron"].pc = "flag"
    /\ Len(cartScan["cron"].batch) = 1
    /\ Len(delivered) = 1
    /\ \E r \in Range(abandoned_carts) :
          /\ r.cart_id # last.cart_id
          /\ r.customer_email # NULL
          /\ ~r.converted
          /\ ~r.email_sent_1
          /\ r.updated_at <= CartRowOf(abandoned_carts, last.cart_id).updated_at
          /\ now - CartRowOf(abandoned_carts, last.cart_id).updated_at > CART_DWELL
          /\ CartRowOf(abandoned_carts, last.cart_id) = Head(cartScan["cron"].batch)

\* C21: after a rejected UPDATE or INSERT inside a scan the run is at the
\* top of its loop with every remaining candidate of the batch, or is over
\* when none remains.
WriteFailureDoesNotAbort ==
    [][last'.op = "cart-write-failed" =>
          LET rest == Tail(cartScan[last'.scan].batch) IN
          cartScan'[last'.scan] = IF rest = <<>> THEN [pc |-> "idle"]
                                                 ELSE [pc |-> "loop", batch |-> rest]]_vars

\* C22: as long as no write of a scan has failed, no cart has had more than
\* one successful cart notification, however the runs started by cron and
\* by the manual trigger interleave.
NoDoubleSendUnderInterleaving ==
    ~writeFailed => \A c \in CartIds : CartDeliveryCount(delivered, c) <= 1

----------------------------------------------------------------------------
----------------------------------------------------------------------------
\* C24: the UPDATE after a successful browse notification for an email sets
\* email_sent only on rows of that email viewed earlier than the 2-hour
\* cutoff; every other row, one viewed within the last 2 hours or recorded
\* during the delivery among them, keeps email_sent = FALSE.
BrowseFlagOnlyEligibleRows ==
    [][last'.op = "browse-flag" =>
          /\ Len(browse_events') = Len(browse_events)
          /\ \A i \in 1..Len(browse_events) :
                (~browse_events[i].email_sent /\ browse_events'[i].email_sent) =>
                   /\ browse_events[i].customer_email = last'.email
                   /\ browse_events[i].viewed_at < now - BROWSE_DWELL]_vars

----------------------------------------------------------------------------
\* C25: every email the browse scan's SELECT returns is neither NULL nor
\* empty and has a row with email_sent = FALSE viewed more than 2 hours
\* before; a row recorded without an email never has email_sent set, and no
\* browse notification or log entry is ever addressed to a missing email.
BrowseSelectsIdentifiedDwellers ==
    [][/\ last'.op = "browse-select" =>
             \A e \in Range(last'.rows) :
                /\ e \notin {NULL, ""}
                /\ \E i \in 1..Len(browse_events) :
                      /\ browse_events[i].customer_email = e
                      /\ ~browse_events[i].email_sent
                      /\ now - browse_events[i].viewed_at > BROWSE_DWELL
       /\ \A i \in 1..Len(browse_events') :
             browse_events'[i].customer_email \in {NULL, ""} =>
                ~browse_events'[i].email_sent
       /\ browseScan'.pc # "idle" =>
             \A e \in Range(browseScan'.batch) : e \notin {NULL, ""}
       /\ \A d \in Range(delivered') : d.email \notin {NULL, ""}
       /\ \A l \in Range(email_log') : l.recipient_email \notin {NULL, ""}]_vars

\* C25 witness: a view without an email and a view with an empty email, both
\* older than the cutoff, are still not flagged right after the scan has
\* notified and flagged the visitor who gave an address.
BrowseSelectsIdentifiedDwellersWitness ==
    /\ last.op = "browse-flag"
    /\ \E x \in Range(delivered) : x.kind = "browse" /\ x.email = OTHER_EMAIL
    /\ \E r \in Range(browse_events) :
          r.customer_email = NULL /\ ~r.email_sent /\ now - r.viewed_at > BROWSE_DWELL
    /\ \E r \in Range(browse_events) :
          r.customer_email = "" /\ ~r.email_sent /\ now - r.viewed_at > BROWSE_DWELL
    /\ \E r \in Range(browse_events) : r.customer_email = OTHER_EMAIL /\ r.email_sent

----------------------------------------------------------------------------
\* the delivery d was made for the view r: it went to the email of r and r
\* is no later than the latest view it showed
CoveredBy(r, d) ==
    /\ d.kind = "browse"
    /\ d.email = r.customer_email
    /\ \E k \in 1..Len(d.products) : r.viewed_at <= d.products[k].viewed_at

\* C26: a row with email_sent = TRUE is behind no product the product SELECT
\* returns and behind no email the candidate SELECT returns; no view that a
\* successful browse notification is made for was covered by an earlier
\* one; and an email notified before is selected only for a view recorded
\* since.
BrowseRowNotifiedOnce ==
    [][/\ last'.op = "browse-products" =>
             \A k \in 1..Len(last'.products) :
                \E r \in Range(browse_events) :
                   /\ r.customer_email = last'.email
                   /\ ~r.email_sent
                   /\ r.product_id = last'.products[k].product_id
                   /\ r.viewed_at = last'.products[k].viewed_at
       /\ last'.op = "browse-select" =>
             \A e \in Range(last'.rows) :
                /\ \E r \in Range(browse_events) :
                      r.customer_email = e /\ ~r.email_sent
                /\ \A d \in Range(delivered) :
                      (d.kind = "browse" /\ d.email = e) =>
                         \E r \in Range(browse_events) :
                            /\ r.customer_email = e
                            /\ ~r.email_sent
                            /\ r.viewed_at >= d.at
       /\ (last'.op = "browse-send" /\ last'.success) =>
             \A r \in Range(browse_events) :
                CoveredBy(r, delivered'[Len(delivered')]) =>
                   \A i \in 1..Len(delivered) : ~CoveredBy(r, delivered[i])]_vars

----------------------------------------------------------------------------
\* C27: whenever a cart notification is delivered, the cart it is for is not
\* converted at that moment.
NoDeliveryForConvertedCart ==
    [][(last'.op = "cart-send" /\ last'.success) =>
          ~CartRowOf(abandoned_carts', last'.cart_id).converted]_vars

----------------------------------------------------------------------------
\* C28: whenever a browse notification is delivered to an email, no cart of
\* that email that is not converted and was updated within the last 24
\* hours exists at that moment.
NoBrowseDeliveryBesideLiveCart ==
    [][(last'.op = "browse-send" /\ last'.success) =>
          ~\E ac \in Range(abandoned_carts') :
              /\ ac.customer_email = last'.email
              /\ ~ac.converted
              /\ now' - ac.updated_at < CART_RECENCY]_vars

----------------------------------------------------------------------------
\* C29: no run that starts after an order-created webhook for a cart has
\* been handled notifies that cart: a notification for such a cart can only
\* come from a run that selected it before the order, so the row of the
\* cart is converted whenever one is delivered.
NoNotificationAfterOrder ==
    [][(last'.op = "cart-send" /\ last'.success /\ last'.cart_id \in ordered) =>
          CartRowOf(abandoned_carts, last'.cart_id).converted]_vars

----------------------------------------------------------------------------
\* cart c has a row that a cart scan's SELECT would return now
EligibleCart(c) ==
    \E r \in Range(abandoned_carts) : r.cart_id = c /\ AbandonedAt(r, now)

\* C30: with cart scans that start again and again and never overlap, every
\* cart whose deliveries succeed whenever they are called and that is
\* eligible is eventually notified, whatever happens to the deliveries for
\* the other carts.
EveryEligibleCartEventuallyNotified ==
    \A c \in Range(BatchCartIds) :
        [](last.op = "cart-send" /\ last.cart_id = c => last.success)
           => [](EligibleCart(c) => <>(CartDeliveries(c) # {}))

----------------------------------------------------------------------------
\* C31: a cart row that holds a non-empty email keeps a non-empty email, and
\* a row that holds a non-zero customer identifier keeps a non-zero one,
\* whatever cart webhook is handled.
LearnedIdentityNeverLost ==
    [][\A i \in 1..Len(abandoned_carts) :
          /\ i <= Len(abandoned_carts')
          /\ abandoned_carts[i].customer_email \notin {NULL, ""} =>
                abandoned_carts'[i].customer_email \notin {NULL, ""}
          /\ abandoned_carts[i].customer_id \notin {NULL, GUEST_ID} =>
                abandoned_carts'[i].customer_id \notin {NULL, GUEST_ID}]_vars

----------------------------------------------------------------------------
\* C32: when the upserts of two handlers for one cart run one after the
\* other in the reverse order of their fetches, the snapshot and the total
\* stored afterwards are those of the later fetch.
SnapshotNeverGoesBackwards ==
    [][(/\ last.op = "upsert"
        /\ last'.op = "upsert"
        /\ last'.cart_id = last.cart_id
        /\ last'.seq < last.seq) =>
          /\ CartRowOf(abandoned_carts', last.cart_id).cart_data = last.cart
          /\ CartRowOf(abandoned_carts', last.cart_id).cart_total = CartTotal(last.cart)]_vars

----------------------------------------------------------------------------
\* C33: in every state, a cart whose email_sent_1 is true has had a
\* successful delivery call, every email_log entry of type abandoned_cart_1
\* names a cart whose email_sent_1 is true, and email_log has no more
\* entries than there have been successful delivery calls.
FlagsAndLogFollowDeliveries ==
    /\ \A r \in Range(abandoned_carts) :
          r.email_sent_1 =>
             \E d \in Range(delivered) : d.kind = "cart" /\ d.cart_id = r.cart_id
    /\ \A l \in Range(email_log) :
          l.email_type = "abandoned_cart_1" =>
             \E r \in Range(abandoned_carts) : r.cart_id = l.cart_id /\ r.email_sent_1
    /\ Len(email_log) <= Len(delivered)

\* C33 witness: a cart is flagged and logged after its delivery, and a
\* second delivery has been followed by a rejected write, so that the log
\* has fewer entries than there were deliveries.
FlagsAndLogFollowDeliveriesWitness ==
    /\ writeFailed
    /\ \E r \in Range(abandoned_carts) : r.email_sent_1
    /\ \E l \in Range(email_log) : l.email_type = "abandoned_cart_1"
    /\ Len(delivered) = 2
    /\ Len(email_log) = 1

----------------------------------------------------------------------------
\* the steps of a cart scan run and of a browse scan run, as last names them
CartScanOps ==
    {"cart-select", "cart-skip", "cart-send", "cart-flag", "cart-log", "cart-write-failed"}

BrowseScanOps ==
    {"browse-select", "browse-skip", "browse-products", "browse-send", "browse-flag",
     "browse-log", "browse-write-failed"}

\* log2 is log1, or log1 with one entry more
AppendsAtMostOne(log1, log2) ==
    \/ log2 = log1
    \/ Len(log2) = Len(log1) + 1 /\ SubSeq(log2, 1, Len(log1)) = log1

\* C34: a step of a cart scan leaves browse_events as it is and changes a
\* cart row only by setting email_sent_1 on a cart the scan has delivered a
\* notification for; a step of a browse scan leaves abandoned_carts as it is
\* and changes a browse row only in email_sent, from false to true; either
\* changes email_log only by appending to it.
ScanFrame ==
    [][/\ last'.op \in CartScanOps =>
             /\ browse_events' = browse_events
             /\ AppendsAtMostOne(email_log, email_log')
             /\ Len(abandoned_carts') = Len(abandoned_carts)
             /\ \A i \in 1..Len(abandoned_carts) :
                   \/ abandoned_carts'[i] = abandoned_carts[i]
                   \/ /\ abandoned_carts'[i] =
                            [abandoned_carts[i] EXCEPT !.email_sent_1 = TRUE]
                      /\ \E d \in Range(delivered) :
                            d.kind = "cart" /\ d.cart_id = abandoned_carts[i].cart_id
       /\ last'.op \in BrowseScanOps =>
             /\ abandoned_carts' = abandoned_carts
             /\ AppendsAtMostOne(email_log, email_log')
             /\ Len(browse_events') = Len(browse_events)
             /\ \A i \in 1..Len(browse_events) :
                   \/ browse_events'[i] = browse_events[i]
                   \/ browse_events'[i] =
                         [browse_events[i] EXCEPT !.email_sent = TRUE]]_vars

\* C34 witness: the table holds a cart that a cart scan has flagged and a
\* view that the browse scan has flagged, the log has an entry of either
\* scan, and the cart still has its email, snapshot, total and hour of update.
ScanFrameWitness ==
    /\ last.op \in {"cart-log", "browse-log"}
    /\ \E r \in Range(abandoned_carts) :
          /\ r.email_sent_1
          /\ r.customer_email = OTHER_EMAIL
          /\ r.cart_total = 10
          /\ r.updated_at = 0
          /\ ~r.converted
    /\ \E b \in Range(browse_events) : b.email_sent
    /\ \E l \in Range(email_log) : l.email_type = "abandoned_cart_1"
    /\ \E l \in Range(email_log) : l.email_type = "browse_abandonment"

----------------------------------------------------------------------------
\* C35: the candidate SELECT of the browse scan returns no email that,
\* letter case aside, is the email of a non-converted cart updated within
\* the last 24 hours.
BrowseExclusionIgnoresCase ==
    last.op = "browse-select" =>
        \A e \in Range(last.rows) :
            ~\E ac \in Range(abandoned_carts) :
                /\ ac.customer_email # NULL
                /\ toLowerCase(ac.customer_email) = toLowerCase(e)
                /\ ~ac.converted
                /\ now - ac.updated_at < CART_RECENCY

----------------------------------------------------------------------------
\* C36: in every state, email_sent_2 and email_sent_3 of every cart and
\* added_to_cart of every browse event are false.
LaterStagesNeverSet ==
    /\ \A r \in Range(abandoned_carts) : ~r.email_sent_2 /\ ~r.email_sent_3
    /\ \A b \in Range(browse_events) : ~b.added_to_cart

\* C36 witness: a cart has been notified, flagged and logged, and then
\* updated again or converted, and a view has been recorded, while the
\* three flags are still false.
LaterStagesNeverSetWitness ==
    /\ \E r \in Range(abandoned_carts) :
          /\ r.email_sent_1
          /\ r.updated_at > 0
          /\ ~r.email_sent_2
          /\ ~r.email_sent_3
    /\ \E l \in Range(email_log) : l.email_type = "abandoned_cart_1"
    /\ \E b \in Range(browse_events) : ~b.added_to_cart

====
